---- MODULE Spec2Model ----
(***************************************************************************)
(* Lab Protocol Optimizer (src/protocol_optimizer.py).                     *)
(*                                                                         *)
(* Text is a sequence of one-character strings, so that str.lower(), the   *)
(* `in` substring test, str.split, str.strip and the regular expressions   *)
(* of the parser are computed character by character as the code does.     *)
(* A fraction (cost or time reduction) is an integer number of hundredths; *)
(* a confidence is an exact decimal [n, d] meaning n/d with d a power of   *)
(* ten, normalised so that equal values are equal records.                 *)
(***************************************************************************)
EXTENDS Integers, Sequences, FiniteSets, TLC

----------------------------------------------------------------------------
(* Bounds of the explored inputs *)

\* longest run of record-producing segments in a generated response
MaxSegs == 6
\* longest response built from the full set of segment shapes
MaxShort == 2
\* most words in a generated protocol title
MaxWords == 2

----------------------------------------------------------------------------
(* Characters and strings *)

UpperLetters == <<"A","B","C","D","E","F","G","H","I","J","K","L","M",
                  "N","O","P","Q","R","S","T","U","V","W","X","Y","Z">>
LowerLetters == <<"a","b","c","d","e","f","g","h","i","j","k","l","m",
                  "n","o","p","q","r","s","t","u","v","w","x","y","z">>

\* the lower-case letter of each capital
LowerMap ==
  [c \in {UpperLetters[i] : i \in 1..26} |->
     LowerLetters[CHOOSE i \in 1..26 : UpperLetters[i] = c]]

\* str.lower() on one character
LowerChar(c) == IF c \in DOMAIN LowerMap THEN LowerMap[c] ELSE c

\* str.lower()
Lower(s) == [i \in 1..Len(s) |-> LowerChar(s[i])]

Digits == {"0", "1", "2", "3", "4", "5", "6", "7", "8", "9"}

DigitChars == <<"0", "1", "2", "3", "4", "5", "6", "7", "8", "9">>

\* the value of each decimal digit
DigitVal == [c \in Digits |-> (CHOOSE i \in 1..10 : DigitChars[i] = c) - 1]

\* the whitespace characters of the modelled alphabet (str.isspace, \s)
Whitespace == {" ", "\n"}

\* s[i:] starts with sub (0-based slice of Python written 1-based)
StartsAt(s, i, sub) ==
  /\ i + Len(sub) - 1 <= Len(s)
  /\ \A j \in 1..Len(sub) : s[i + j - 1] = sub[j]

\* Python `sub in s`
Contains(s, sub) == \E i \in 1..(Len(s) + 1) : StartsAt(s, i, sub)

\* smallest index >= i at which sub starts in s, or 0 (str.find + 1)
Find(s, sub, i) ==
  LET hits == {k \in i..(Len(s) - Len(sub) + 1) : s[k] = sub[1] /\ StartsAt(s, k, sub)}
  IN IF hits = {} THEN 0 ELSE CHOOSE a \in hits : \A b \in hits : a <= b

\* str.split(sep) for a non-empty separator
RECURSIVE Split(_, _)
Split(s, sep) ==
  LET k == Find(s, sep, 1) IN
  IF k = 0 THEN <<s>>
  ELSE <<SubSeq(s, 1, k - 1)>> \o Split(SubSeq(s, k + Len(sep), Len(s)), sep)

RECURSIVE LStripFrom(_, _)
LStripFrom(s, i) ==
  IF i <= Len(s) /\ s[i] \in Whitespace THEN LStripFrom(s, i + 1) ELSE i

RECURSIVE RStripFrom(_, _)
RStripFrom(s, j) ==
  IF j >= 1 /\ s[j] \in Whitespace THEN RStripFrom(s, j - 1) ELSE j

\* str.strip()
Strip(s) == SubSeq(s, LStripFrom(s, 1), RStripFrom(s, Len(s)))

\* sep.join(parts)
RECURSIVE Join(_, _)
Join(sep, parts) ==
  IF Len(parts) = 0 THEN << >>
  ELSE IF Len(parts) = 1 THEN parts[1]
  ELSE parts[1] \o sep \o Join(sep, Tail(parts))

\* concatenation of a sequence of sequences
RECURSIVE Flatten(_)
Flatten(ss) == IF Len(ss) = 0 THEN << >> ELSE ss[1] \o Flatten(Tail(ss))

----------------------------------------------------------------------------
(* Numbers *)

\* an exact decimal n/d, d a power of ten, in lowest such form
RECURSIVE Normalise(_)
Normalise(f) ==
  IF f.d > 1 /\ f.n % 10 = 0 THEN Normalise([n |-> f.n \div 10, d |-> f.d \div 10])
  ELSE f

Dec(n, d) == Normalise([n |-> n, d |-> d])

FloatLeq(a, b) == a.n * b.d <= b.n * a.d
FloatLt(a, b)  == a.n * b.d <  b.n * a.d

\* int(digits): value of a string of decimal digits
RECURSIVE DigitsValue(_)
DigitsValue(s) ==
  IF Len(s) = 0 THEN 0
  ELSE 10 * DigitsValue(SubSeq(s, 1, Len(s) - 1)) + DigitVal[s[Len(s)]]

RECURSIVE Pow10(_)
Pow10(k) == IF k = 0 THEN 1 ELSE 10 * Pow10(k - 1)

\* float(s) for s drawn from [0-9.]+ : ValueError unless s has at most one
\* point and at least one digit
ParseFloat(s) ==
  LET dots == {i \in 1..Len(s) : s[i] = "."} IN
  IF Cardinality(dots) > 1 \/ Len(s) = Cardinality(dots)
    THEN [raised |-> TRUE, val |-> Dec(0, 1)]
  ELSE IF dots = {}
    THEN [raised |-> FALSE, val |-> Dec(DigitsValue(s), 1)]
  ELSE LET p    == CHOOSE i \in dots : TRUE
           ip   == SubSeq(s, 1, p - 1)
           fp   == SubSeq(s, p + 1, Len(s))
       IN [raised |-> FALSE,
           val    |-> Dec(DigitsValue(ip) * Pow10(Len(fp)) + DigitsValue(fp),
                          Pow10(Len(fp)))]

----------------------------------------------------------------------------
(* ProtocolDatabase: the catalogue *)

\* one entry of an 'optimizations' list (the dict literal of the source;
\* the two non-ASCII characters of "50ul"/"20ul" are written "u")
Opt(t, sug, sav, conf, src, cost, time) ==
  [type |-> t, suggestion |-> sug, savings |-> sav, confidence |-> conf,
   source |-> src, cost_reduction |-> cost, time_reduction |-> time]

PcrEntry ==
  [name |-> "pcr",
   keywords |-> << <<"p","c","r">>, <<"a","m","p","l","i","f","i","c","a","t","i","o","n">>, <<"p","o","l","y","m","e","r","a","s","e">>, <<"t","h","e","r","m","o","c","y","c","l","e","r">> >>,
   optimizations |-> <<
     Opt(<<"T","i","m","e"," ","R","e","d","u","c","t","i","o","n">>,
         <<"U","s","e"," ","f","a","s","t"," ","p","o","l","y","m","e","r","a","s","e"," ","(","P","h","u","s","i","o","n"," ","F","l","a","s","h",")"," ","t","o"," ","r","e","d","u","c","e"," ","e","x","t","e","n","s","i","o","n"," ","t","i","m","e"," ","f","r","o","m"," ","1","m","i","n","/","k","b"," ","t","o"," ","1","5","s","e","c","/","k","b">>,
         <<"7","5","%"," ","c","y","c","l","e"," ","t","i","m","e"," ","r","e","d","u","c","t","i","o","n">>, Dec(9, 10),
         <<"p","r","o","t","o","c","o","l","s",".","i","o","/","p","c","r","-","o","p","t","i","m","i","z","a","t","i","o","n","-","2","0","2","3">>, 0, 75),
     Opt(<<"C","o","s","t"," ","R","e","d","u","c","t","i","o","n">>,
         <<"R","e","d","u","c","e"," ","r","e","a","c","t","i","o","n"," ","v","o","l","u","m","e"," ","f","r","o","m"," ","5","0","u","l"," ","t","o"," ","2","0","u","l","."," ","U","s","e"," ","n","e","s","t","e","d"," ","P","C","R"," ","d","e","s","i","g","n"," ","i","f"," ","s","e","n","s","i","t","i","v","i","t","y"," ","i","s"," ","n","e","e","d","e","d">>,
         <<"6","0","%"," ","r","e","a","g","e","n","t"," ","c","o","s","t"," ","r","e","d","u","c","t","i","o","n">>, Dec(85, 100),
         <<"g","i","t","h","u","b",".","c","o","m","/","l","a","b","-","p","r","o","t","o","c","o","l","s","/","p","c","r","-","m","i","n","i","a","t","u","r","i","z","a","t","i","o","n">>, 60, 0),
     Opt(<<"E","f","f","i","c","i","e","n","c","y"," ","E","n","h","a","n","c","e","m","e","n","t">>,
         <<"A","d","d"," ","t","o","u","c","h","d","o","w","n"," ","P","C","R"," ","p","r","o","t","o","c","o","l"," ","t","o"," ","i","m","p","r","o","v","e"," ","s","p","e","c","i","f","i","c","i","t","y"," ","a","n","d"," ","r","e","d","u","c","e"," ","o","p","t","i","m","i","z","a","t","i","o","n"," ","t","i","m","e">>,
         <<"5","0","%"," ","o","p","t","i","m","i","z","a","t","i","o","n"," ","t","i","m","e"," ","r","e","d","u","c","t","i","o","n">>, Dec(8, 10),
         <<"b","i","o","-","p","r","o","t","o","c","o","l",".","o","r","g","/","t","o","u","c","h","d","o","w","n","-","p","c","r">>, 10, 30) >>]

WesternBlotEntry ==
  [name |-> "western_blot",
   keywords |-> << <<"w","e","s","t","e","r","n">>, <<"b","l","o","t">>, <<"s","d","s","-","p","a","g","e">>, <<"i","m","m","u","n","o","b","l","o","t">>, <<"a","n","t","i","b","o","d","y">> >>,
   optimizations |-> <<
     Opt(<<"T","i","m","e"," ","R","e","d","u","c","t","i","o","n">>,
         <<"U","s","e"," ","r","a","p","i","d"," ","t","r","a","n","s","f","e","r"," ","s","y","s","t","e","m"," ","(","i","B","l","o","t",")"," ","i","n","s","t","e","a","d"," ","o","f"," ","w","e","t"," ","t","r","a","n","s","f","e","r",":"," ","7","m","i","n"," ","v","s"," ","2","h","r">>,
         <<"9","5","%"," ","t","r","a","n","s","f","e","r"," ","t","i","m","e"," ","r","e","d","u","c","t","i","o","n">>, Dec(9, 10),
         <<"p","r","o","t","o","c","o","l","s",".","i","o","/","r","a","p","i","d","-","w","e","s","t","e","r","n","-","t","r","a","n","s","f","e","r">>, 0, 95),
     Opt(<<"C","o","s","t"," ","R","e","d","u","c","t","i","o","n">>,
         <<"S","t","r","i","p"," ","a","n","d"," ","r","e","u","s","e"," ","P","V","D","F"," ","m","e","m","b","r","a","n","e","s"," ","u","p"," ","t","o"," ","3"," ","t","i","m","e","s"," ","w","i","t","h"," ","m","i","l","d"," ","s","t","r","i","p","p","i","n","g"," ","b","u","f","f","e","r">>,
         <<"7","0","%"," ","m","e","m","b","r","a","n","e"," ","c","o","s","t"," ","r","e","d","u","c","t","i","o","n">>, Dec(75, 100),
         <<"j","o","v","e",".","c","o","m","/","m","e","m","b","r","a","n","e","-","r","e","u","s","e","-","p","r","o","t","o","c","o","l","s">>, 70, 0) >>]

CellCultureEntry ==
  [name |-> "cell_culture",
   keywords |-> << <<"c","e","l","l"," ","c","u","l","t","u","r","e">>, <<"c","u","l","t","u","r","e">>, <<"m","e","d","i","a">>, <<"p","a","s","s","a","g","e">>, <<"c","u","l","t","u","r","e"," ","f","l","a","s","k">> >>,
   optimizations |-> <<
     Opt(<<"C","o","s","t"," ","R","e","d","u","c","t","i","o","n">>,
         <<"S","w","i","t","c","h"," ","t","o"," ","s","e","r","u","m","-","f","r","e","e"," ","m","e","d","i","a"," ","(","O","p","t","i","M","E","M",","," ","P","o","w","e","r","M","e","d",")"," ","-"," ","r","e","d","u","c","e","s"," ","c","o","s","t"," ","a","n","d"," ","v","a","r","i","a","b","i","l","i","t","y">>,
         <<"4","0","-","6","0","%"," ","m","e","d","i","a"," ","c","o","s","t"," ","r","e","d","u","c","t","i","o","n">>, Dec(8, 10),
         <<"c","e","l","l","-","c","u","l","t","u","r","e","-","p","r","o","t","o","c","o","l","s",".","o","r","g","/","s","e","r","u","m","-","f","r","e","e","-","2","0","2","3">>, 50, 10),
     Opt(<<"A","u","t","o","m","a","t","i","o","n">>,
         <<"U","s","e"," ","a","u","t","o","m","a","t","e","d"," ","c","e","l","l"," ","c","o","u","n","t","i","n","g"," ","(","C","o","u","n","t","e","s","s",")"," ","i","n","s","t","e","a","d"," ","o","f"," ","m","a","n","u","a","l"," ","h","e","m","o","c","y","t","o","m","e","t","e","r">>,
         <<"8","0","%"," ","c","o","u","n","t","i","n","g"," ","t","i","m","e"," ","r","e","d","u","c","t","i","o","n">>, Dec(9, 10),
         <<"g","i","t","h","u","b",".","c","o","m","/","l","a","b","-","a","u","t","o","m","a","t","i","o","n","/","c","e","l","l","-","c","o","u","n","t","i","n","g">>, 0, 80) >>]

ElisaEntry ==
  [name |-> "elisa",
   keywords |-> << <<"e","l","i","s","a">>, <<"e","n","z","y","m","e","-","l","i","n","k","e","d">>, <<"i","m","m","u","n","o","a","s","s","a","y">>, <<"p","l","a","t","e"," ","r","e","a","d","e","r">> >>,
   optimizations |-> <<
     Opt(<<"C","o","s","t"," ","R","e","d","u","c","t","i","o","n">>,
         <<"U","s","e"," ","h","a","l","f","-","v","o","l","u","m","e"," ","(","5","0","u","l",")"," ","E","L","I","S","A"," ","p","r","o","t","o","c","o","l"," ","i","n"," ","3","8","4","-","w","e","l","l"," ","p","l","a","t","e","s">>,
         <<"5","0","%"," ","r","e","a","g","e","n","t"," ","c","o","s","t",","," ","4","x"," ","t","h","r","o","u","g","h","p","u","t">>, Dec(85, 100),
         <<"p","r","o","t","o","c","o","l","s",".","i","o","/","m","i","n","i","a","t","u","r","i","z","e","d","-","e","l","i","s","a">>, 50, 30) >>]

QpcrEntry ==
  [name |-> "qpcr",
   keywords |-> << <<"q","p","c","r">>, <<"r","e","a","l","-","t","i","m","e"," ","p","c","r">>, <<"q","u","a","n","t","i","t","a","t","i","v","e"," ","p","c","r">>, <<"s","y","b","r">>, <<"t","a","q","m","a","n">> >>,
   optimizations |-> <<
     Opt(<<"C","o","s","t"," ","R","e","d","u","c","t","i","o","n">>,
         <<"U","s","e"," ","S","Y","B","R"," ","G","r","e","e","n"," ","i","n","s","t","e","a","d"," ","o","f"," ","T","a","q","M","a","n"," ","p","r","o","b","e","s"," ","w","h","e","r","e"," ","p","o","s","s","i","b","l","e"," ","(","1","0","x"," ","c","o","s","t"," ","r","e","d","u","c","t","i","o","n",")">>,
         <<"9","0","%"," ","d","e","t","e","c","t","i","o","n"," ","c","o","s","t"," ","r","e","d","u","c","t","i","o","n">>, Dec(7, 10),
         <<"q","p","c","r","-","p","r","o","t","o","c","o","l","s",".","o","r","g","/","s","y","b","r","-","o","p","t","i","m","i","z","a","t","i","o","n">>, 90, 0) >>]

\* self.protocols, in the insertion order that dict.items() iterates
protocols == << PcrEntry, WesternBlotEntry, CellCultureEntry, ElisaEntry, QpcrEntry >>

\* mutant of AnyKeywordIn: all(...) written for any(...)
AllKeywordsIn(data, protocol_text_lower) ==
  \A k \in 1..Len(data.keywords) : Contains(protocol_text_lower, data.keywords[k])

\* any(keyword in protocol_text_lower for keyword in data['keywords'])
AnyKeywordIn(data, protocol_text_lower) ==
  \E k \in 1..Len(data.keywords) : Contains(protocol_text_lower, data.keywords[k])

\* the loop of get_optimizations over the entries i..n
RECURSIVE ExtendFrom(_, _)
ExtendFrom(i, protocol_text_lower) ==
  IF i > Len(protocols) THEN << >>
  ELSE (IF AnyKeywordIn(protocols[i], protocol_text_lower)
          THEN protocols[i].optimizations ELSE << >>)
       \o ExtendFrom(i + 1, protocol_text_lower)

\* mutant of get_optimizations: the text is matched without .lower()
get_optimizations_case_sensitive(protocol_text) == ExtendFrom(1, protocol_text)

\* ProtocolDatabase.get_optimizations
get_optimizations(protocol_text) ==
  LET protocol_text_lower == Lower(protocol_text)
  IN  ExtendFrom(1, protocol_text_lower)

----------------------------------------------------------------------------
(* Regular expressions (the subset of `re` used by the parser)            *)

Lit(c) == [k |-> "lit", c |-> c, cls |-> "", min |-> 1, grp |-> FALSE]

\* a greedy repetition of a character class, at least `min` times;
\* grp: the repetition is capture group 1
Rep(cls, min, grp) == [k |-> "rep", c |-> "", cls |-> cls, min |-> min, grp |-> grp]

LitSeq(s) == [i \in 1..Len(s) |-> Lit(s[i])]

InClass(c, cls) ==
  CASE cls = "space"  -> c \in Whitespace          \* \s
    [] cls = "dot"    -> c # "\n"                  \* .  without re.DOTALL
    [] cls = "any"    -> TRUE                      \* .  with re.DOTALL
    [] cls = "digit"  -> c \in Digits              \* \d
    [] cls = "digdot" -> c \in Digits \cup {"."}   \* [\d.]

RECURSIVE RunLen(_, _, _)
RunLen(text, i, cls) ==
  IF i <= Len(text) /\ InClass(text[i], cls) THEN 1 + RunLen(text, i + 1, cls) ELSE 0

NoMatch == [ok |-> FALSE, start |-> 0, end |-> 0, group |-> << >>]

\* backtracking match of pat[pi..] at text position ti; ic is re.IGNORECASE.
\* A repetition first takes the longest run and gives characters back one
\* at a time until the rest of the pattern matches.
RECURSIVE MatchAt(_, _, _, _, _, _)
RECURSIVE TryRep(_, _, _, _, _, _, _)
MatchAt(pat, pi, text, ti, ic, cap) ==
  IF pi > Len(pat) THEN [ok |-> TRUE, start |-> 0, end |-> ti, group |-> cap]
  ELSE LET e == pat[pi] IN
    IF e.k = "lit"
      THEN IF ti <= Len(text)
              /\ (IF ic THEN LowerChar(text[ti]) = LowerChar(e.c) ELSE text[ti] = e.c)
             THEN MatchAt(pat, pi + 1, text, ti + 1, ic, cap)
             ELSE NoMatch
      ELSE TryRep(pat, pi, text, ti, ic, cap, RunLen(text, ti, e.cls))

TryRep(pat, pi, text, ti, ic, cap, n) ==
  IF n < pat[pi].min THEN NoMatch
  ELSE LET r == MatchAt(pat, pi + 1, text, ti + n, ic,
                        IF pat[pi].grp THEN SubSeq(text, ti, ti + n - 1) ELSE cap)
       IN IF r.ok THEN r ELSE TryRep(pat, pi, text, ti, ic, cap, n - 1)

\* whether the first element of a pattern accepts character c (every
\* pattern of the source begins with an element that consumes a character)
FirstAccepts(e, c, ic) ==
  IF e.k = "lit" THEN (IF ic THEN LowerChar(c) = LowerChar(e.c) ELSE c = e.c)
  ELSE InClass(c, e.cls)

\* the smallest element of a non-empty set of positions
Least(starts) == CHOOSE a \in starts : \A b \in starts : a <= b

\* the smallest start position among `starts` at which pat matches;
\* SearchNext: r is the outcome of the attempt at position i
RECURSIVE SearchAmong(_, _, _, _)
RECURSIVE SearchNext(_, _, _, _, _, _)
SearchNext(pat, text, ic, starts, i, r) ==
  IF r.ok THEN [r EXCEPT !.start = i]
  ELSE SearchAmong(pat, text, ic, starts \ {i})

SearchAmong(pat, text, ic, starts) ==
  IF starts = {} THEN NoMatch
  ELSE SearchNext(pat, text, ic, starts, Least(starts),
                  MatchAt(pat, 1, text, Least(starts), ic, << >>))

\* re.search(pat, text, flags): the leftmost match; only positions whose
\* character the first pattern element accepts can start one
Search(pat, text, ic) ==
  SearchAmong(pat, text, ic,
              {i \in 1..Len(text) : FirstAccepts(pat[1], text[i], ic)})

\* re.sub(pat, '', text) for a pattern that matches no empty string;
\* SubMatch: m is the leftmost match in text
RECURSIVE SubEmpty(_, _, _)
RECURSIVE SubMatch(_, _, _, _)
SubMatch(pat, text, ic, m) ==
  IF ~m.ok THEN text
  ELSE SubSeq(text, 1, m.start - 1)
       \o SubEmpty(pat, SubSeq(text, m.end, Len(text)), ic)

SubEmpty(pat, text, ic) == SubMatch(pat, text, ic, Search(pat, text, ic))

----------------------------------------------------------------------------
(* GeminiOptimizer: Response Parser *)

\* r'TYPE:\s*(.+)'  re.IGNORECASE
TypePattern == LitSeq(<<"T","Y","P","E",":">>) \o << Rep("space", 0, FALSE), Rep("dot", 1, TRUE) >>
\* r'SUGGESTION:\s*(.+)'  re.IGNORECASE | re.DOTALL
SuggestionPattern == LitSeq(<<"S","U","G","G","E","S","T","I","O","N",":">>) \o << Rep("space", 0, FALSE), Rep("any", 1, TRUE) >>
\* r'SAVINGS:\s*(.+)'  re.IGNORECASE
SavingsPattern == LitSeq(<<"S","A","V","I","N","G","S",":">>) \o << Rep("space", 0, FALSE), Rep("dot", 1, TRUE) >>
\* r'CONFIDENCE:\s*([\d.]+)'  re.IGNORECASE
ConfidencePattern == LitSeq(<<"C","O","N","F","I","D","E","N","C","E",":">>) \o << Rep("space", 0, FALSE), Rep("digdot", 1, TRUE) >>
\* mutant of SavingsTailPattern: re.DOTALL left out
SavingsTailPatternNoDotall == LitSeq(<<"S","A","V","I","N","G","S",":">>) \o << Rep("dot", 0, FALSE) >>

\* r'SAVINGS:.*'  re.IGNORECASE | re.DOTALL
SavingsTailPattern == LitSeq(<<"S","A","V","I","N","G","S",":">>) \o << Rep("any", 0, FALSE) >>

cost_patterns == <<
  \* r'(\d+)%.*cost.*reduction'
  << Rep("digit", 1, TRUE), Lit("%"), Rep("dot", 0, FALSE) >> \o LitSeq(<<"c","o","s","t">>)
     \o << Rep("dot", 0, FALSE) >> \o LitSeq(<<"r","e","d","u","c","t","i","o","n">>),
  \* r'(\d+)%.*cheaper'
  << Rep("digit", 1, TRUE), Lit("%"), Rep("dot", 0, FALSE) >> \o LitSeq(<<"c","h","e","a","p","e","r">>),
  \* r'save.*(\d+)%.*cost'
  LitSeq(<<"s","a","v","e">>) \o << Rep("dot", 0, FALSE), Rep("digit", 1, TRUE), Lit("%"),
     Rep("dot", 0, FALSE) >> \o LitSeq(<<"c","o","s","t">>),
  \* r'reduce.*cost.*(\d+)%'
  LitSeq(<<"r","e","d","u","c","e">>) \o << Rep("dot", 0, FALSE) >> \o LitSeq(<<"c","o","s","t">>)
     \o << Rep("dot", 0, FALSE), Rep("digit", 1, TRUE), Lit("%") >> >>

time_patterns == <<
  \* r'(\d+)%.*time.*reduction'
  << Rep("digit", 1, TRUE), Lit("%"), Rep("dot", 0, FALSE) >> \o LitSeq(<<"t","i","m","e">>)
     \o << Rep("dot", 0, FALSE) >> \o LitSeq(<<"r","e","d","u","c","t","i","o","n">>),
  \* r'(\d+)%.*faster'
  << Rep("digit", 1, TRUE), Lit("%"), Rep("dot", 0, FALSE) >> \o LitSeq(<<"f","a","s","t","e","r">>),
  \* r'save.*(\d+)%.*time'
  LitSeq(<<"s","a","v","e">>) \o << Rep("dot", 0, FALSE), Rep("digit", 1, TRUE), Lit("%"),
     Rep("dot", 0, FALSE) >> \o LitSeq(<<"t","i","m","e">>),
  \* r'reduce.*time.*(\d+)%'
  LitSeq(<<"r","e","d","u","c","e">>) \o << Rep("dot", 0, FALSE) >> \o LitSeq(<<"t","i","m","e">>)
     \o << Rep("dot", 0, FALSE), Rep("digit", 1, TRUE), Lit("%") >> >>

\* the `for pattern in ...: match = re.search(pattern, text.lower())` loop;
\* float(match.group(1)) / 100 is returned as the number of hundredths.
\* PatternMatch: the `if match:` of pattern i
RECURSIVE FirstPattern(_, _, _)
RECURSIVE PatternMatch(_, _, _, _)
PatternMatch(patterns, i, lowered, match) ==
  IF match.ok THEN DigitsValue(match.group)
  ELSE FirstPattern(patterns, i + 1, lowered)

FirstPattern(patterns, i, lowered) ==
  IF i > Len(patterns) THEN 0
  ELSE PatternMatch(patterns, i, lowered, Search(patterns[i], lowered, FALSE))

\* GeminiOptimizer._extract_cost_reduction
extract_cost_reduction(text) == FirstPattern(cost_patterns, 1, Lower(text))

\* GeminiOptimizer._extract_time_reduction
extract_time_reduction(text) == FirstPattern(time_patterns, 1, Lower(text))

\* the Optimization dataclass
Optimization(t, sug, sav, conf, src, cost, time) ==
  [type |-> t, suggestion |-> sug, savings |-> sav, confidence |-> conf,
   source |-> src, estimated_cost_reduction |-> cost,
   estimated_time_reduction |-> time]

\* float(confidence_match.group(1)) if confidence_match else 0.7
ConfidenceOf(confidence_match) ==
  IF confidence_match.ok THEN ParseFloat(confidence_match.group)
  ELSE [raised |-> FALSE, val |-> Dec(7, 10)]

\* `if type_match and suggestion_match: optimizations.append(...)` for one
\* section and its four matches: "skip" (TYPE or SUGGESTION not found),
\* "record", or "raise" (ValueError of float())
SectionRecord(section, type_match, suggestion_match, savings_match, confidence_match) ==
  IF ~(type_match.ok /\ suggestion_match.ok) THEN [kind |-> "skip"]
  ELSE
    LET conf == ConfidenceOf(confidence_match) IN
    IF conf.raised THEN [kind |-> "raise"]
    ELSE [kind |-> "record",
          rec  |-> Optimization(
                     Strip(type_match.group),
                     Strip(SubEmpty(SavingsTailPattern,
                                    Strip(suggestion_match.group), TRUE)),
                     IF savings_match.ok THEN Strip(savings_match.group)
                                         ELSE <<"V","a","r","i","a","b","l","e">>,
                     conf.val,
                     <<"G","e","m","i","n","i"," ","A","I"," ","A","n","a","l","y","s","i","s">>,
                     extract_cost_reduction(section),
                     extract_time_reduction(section))]

\* `if not section.strip(): continue`, then the four re.search calls
StrippedSection(section) ==
  IF Len(section) = 0 THEN [kind |-> "skip"]
  ELSE SectionRecord(section,
                     Search(TypePattern, section, TRUE),
                     Search(SuggestionPattern, section, TRUE),
                     Search(SavingsPattern, section, TRUE),
                     Search(ConfidencePattern, section, TRUE))

\* the body of the `for section in sections` loop for one section
ParseSection(raw) == StrippedSection(Strip(raw))

\* the loop over sections i..n, appending to `optimizations`;
\* AfterSection: r is what the body did with section i
RECURSIVE ParseSections(_, _, _)
RECURSIVE AfterSection(_, _, _, _)
AfterSection(sections, i, optimizations, r) ==
  IF r.kind = "raise" THEN [raised |-> TRUE, val |-> << >>]
  ELSE ParseSections(sections, i + 1,
         IF r.kind = "record" THEN Append(optimizations, r.rec) ELSE optimizations)

ParseSections(sections, i, optimizations) ==
  IF i > Len(sections) THEN [raised |-> FALSE, val |-> optimizations]
  ELSE AfterSection(sections, i, optimizations, ParseSection(sections[i]))

\* optimizations[:5]
FirstFive(optimizations) == SubSeq(optimizations, 1, IF Len(optimizations) < 5 THEN Len(optimizations) ELSE 5)

\* `return optimizations[:5]`, when the loop r ended without an exception
ReturnFirstFive(r) ==
  IF r.raised THEN r ELSE [raised |-> FALSE, val |-> FirstFive(r.val)]

\* GeminiOptimizer._parse_gemini_response; raised: a ValueError left the call
parse_gemini_response(text) ==
  ReturnFirstFive(ParseSections(Split(text, <<"-","-","-">>), 1, << >>))

----------------------------------------------------------------------------
(* GeminiOptimizer.optimize_protocol and ProtocolOptimizer *)

\* Python None (distinct from every text, which holds one-character strings)
None == << "None" >>

\* truth value of an optional string: `if gemini_api_key`
Truthy(s) == s # None /\ Len(s) > 0

\* the statements inside `try:` of optimize_protocol, given what the HTTP
\* exchange produced; raised: an exception left the statements
TryBody(remote, text) ==
  IF remote.kind # "response"
    THEN [raised |-> TRUE, val |-> << >>]      \* requests.post raised
  ELSE IF remote.status_code # 200
    THEN [raised |-> TRUE, val |-> << >>]      \* raise Exception("API Error")
  ELSE IF remote.body # "text"
    THEN [raised |-> TRUE, val |-> << >>]      \* response.json() or the
                                               \* candidates path raised
  ELSE parse_gemini_response(text)

\* mutant of optimize_protocol: no `except Exception` around the statements
optimize_protocol_no_except(remote, text) == TryBody(remote, text)

\* `except Exception as e: ... return []` around the outcome r of the
\* statements inside `try:`
ExceptException(r) ==
  IF r.raised THEN [raised |-> FALSE, val |-> << >>] ELSE r

\* GeminiOptimizer.optimize_protocol
optimize_protocol(remote, text) == ExceptException(TryBody(remote, text))

\* f"{protocol.title} {protocol.description} {' '.join(protocol.materials)}"
ProtocolText(p) == p.title \o <<" ">> \o p.description \o <<" ">> \o Join(<<" ">>, p.materials)

\* Optimization(type=opt_data['type'], ...) of analyze_protocol
ToOptimization(opt_data) ==
  Optimization(opt_data.type, opt_data.suggestion, opt_data.savings,
               opt_data.confidence, opt_data.source,
               opt_data.cost_reduction, opt_data.time_reduction)

\* mutant of InsertPos: x goes in front of the elements of equal confidence
\* (the order `sorted ascending, then reversed` produces)
RECURSIVE InsertPosBeforeEqual(_, _, _)
InsertPosBeforeEqual(sorted, x, i) ==
  IF i <= Len(sorted) /\ FloatLt(x.confidence, sorted[i].confidence)
    THEN InsertPosBeforeEqual(sorted, x, i + 1) ELSE i

\* place of x in a list already sorted by confidence, largest first:
\* behind every element whose confidence is not smaller (ties keep order)
RECURSIVE InsertPos(_, _, _)
InsertPos(sorted, x, i) ==
  IF i <= Len(sorted) /\ FloatLeq(x.confidence, sorted[i].confidence)
    THEN InsertPos(sorted, x, i + 1) ELSE i

Insert(sorted, x) ==
  LET i == InsertPos(sorted, x, 1) IN
  SubSeq(sorted, 1, i - 1) \o << x >> \o SubSeq(sorted, i, Len(sorted))

\* list.sort(key=lambda x: x.confidence, reverse=True): a stable sort, and
\* reverse=True keeps the original order of elements with equal keys
RECURSIVE SortFrom(_, _, _)
SortFrom(list, i, sorted) ==
  IF i > Len(list) THEN sorted ELSE SortFrom(list, i + 1, Insert(sorted, list[i]))

SortByConfidence(list) == SortFrom(list, 1, << >>)

RECURSIVE SumCost(_)
SumCost(list) ==
  IF Len(list) = 0 THEN 0 ELSE list[1].estimated_cost_reduction + SumCost(Tail(list))

RECURSIVE SumTime(_)
SumTime(list) ==
  IF Len(list) = 0 THEN 0 ELSE list[1].estimated_time_reduction + SumTime(Tail(list))

\* mutant of Min: the sum is returned without the ceiling
MinUnclamped(a, b) == a

\* min(a, b)
Min(a, b) == IF a <= b THEN a ELSE b

MaxDen(list) ==
  IF Len(list) = 0 THEN 1
  ELSE CHOOSE d \in {list[i].confidence.d : i \in 1..Len(list)} :
         \A j \in 1..Len(list) : list[j].confidence.d <= d

RECURSIVE SumConfidence(_, _)
SumConfidence(list, d) ==
  IF Len(list) = 0 THEN 0
  ELSE list[1].confidence.n * (d \div list[1].confidence.d) + SumConfidence(Tail(list), d)

\* sum(opt.confidence ...) / len(all_optimizations) if all_optimizations else 0,
\* as the exact fraction n/d
AverageConfidence(list) ==
  IF Len(list) = 0 THEN [n |-> 0, d |-> 1]
  ELSE [n |-> SumConfidence(list, MaxDen(list)), d |-> MaxDen(list) * Len(list)]

\* the aggregate cost ceiling 0.8 and time ceiling 0.9, in hundredths
CostCap == 80
TimeCap == 90

\* [Optimization(...) for opt_data in db_optimizations]
DbOpts(db_optimizations) ==
  [i \in 1..Len(db_optimizations) |-> ToOptimization(db_optimizations[i])]

\* the dict analyze_protocol returns, with the locals it is computed from
Analysis(call_raised, db_opts, gemini_opts, all_optimizations) ==
  [raised      |-> call_raised,
   db_opts     |-> db_opts,
   gemini_opts |-> gemini_opts,
   optimizations        |-> all_optimizations,
   total_cost_reduction |-> Min(SumCost(all_optimizations), CostCap),
   total_time_reduction |-> Min(SumTime(all_optimizations), TimeCap),
   optimization_count   |-> Len(all_optimizations),
   average_confidence   |-> AverageConfidence(all_optimizations)]

\* all_optimizations = db_opts + gemini_opts, sorted; call: the outcome of
\* self.gemini.optimize_protocol, or of skipping it
Combine(db_opts, call) ==
  Analysis(call.raised, db_opts, call.val,
           SortByConfidence(db_opts \o call.val))

\* ProtocolOptimizer.analyze_protocol; gemini: self.gemini is not None.
\* raised: an exception left the call
analyze_protocol(p, gemini, remote, text) ==
  Combine(DbOpts(get_optimizations(ProtocolText(p))),
          IF gemini THEN optimize_protocol(remote, text)
                    ELSE [raised |-> FALSE, val |-> << >>])

----------------------------------------------------------------------------
(* Inputs: protocols, remote outcomes, response texts, phrases *)

\* the sequences over S of length at most n
SeqsUpTo(S, n) == UNION { [1..k -> S] : k \in 0..n }

\* the Protocol dataclass (the fields analyze_protocol reads)
Protocol(title, description, materials) ==
  [title |-> title, description |-> description, materials |-> materials]

Titles == { <<"P","C","R"," ","a","m","p","l","i","f","i","c","a","t","i","o","n"," ","u","s","i","n","g"," ","t","h","e","r","m","o","c","y","c","l","e","r">>, <<"q","P","C","R">>, <<"W","e","s","t","e","r","n"," ","B","l","o","t">>,
            <<"P","l","a","t","e">>, <<"t","e","a">>, <<"S","Y","B","R">> }
Descriptions == { <<>>, <<"r","e","a","d","e","r">>, <<"C","e","l","l"," ","C","u","l","t","u","r","e">> }
MaterialLists == { << >>, << <<"a","n","t","i","b","o","d","y">>, <<"M","e","d","i","a">> >>, << <<"E","L","I","S","A"," ","k","i","t">> >>,
                   << <<"b","l","o","t">>, <<"e","l","i","s","a">> >> }

Protocols == { Protocol(t, d, m) : t \in Titles, d \in Descriptions, m \in MaterialLists }

\* words of generated titles: keywords in several casings, parts of keywords
\* of more than one word, and words that are no keyword
Words == { <<"P","C","R">>, <<"q","P","c","r">>, <<"W","e","s","t","e","r","n">>, <<"t","e","a">>, <<"S","y","b","r">>, <<"P","l","a","t","e">>, <<"r","e","a","d","e","r">>,
           <<"R","e","a","l","-","T","i","m","e">>, <<"c","e","l","l">>, <<"C","U","L","T","U","R","E">>, <<"E","l","i","s","a">>, <<"a","m","p","l","i","f","y">> }

\* the protocols whose text the matcher is tried on
MatcherProtocols ==
  Protocols \cup
  { Protocol(Join(<<" ">>, ws), d, m) :
      ws \in SeqsUpTo(Words, MaxWords),
      d \in { <<>>, <<"r","e","a","d","e","r">> },
      m \in { << >>, << <<"b","l","o","t">>, <<"e","l","i","s","a">> >> } }

FewProtocols == { Protocol(<<"t","e","a">>, <<>>, << >>),
                  Protocol(<<"P","C","R"," ","a","m","p","l","i","f","i","c","a","t","i","o","n"," ","u","s","i","n","g"," ","t","h","e","r","m","o","c","y","c","l","e","r">>, <<>>, << >>),
                  Protocol(<<"q","P","C","R">>, <<"C","e","l","l"," ","C","u","l","t","u","r","e">>, << <<"b","l","o","t">>, <<"e","l","i","s","a">> >>) }

\* a field the remote model left out of a segment
Absent == << "absent" >>

\* what the remote model wrote after CONFIDENCE: its text, and what the text
\* is: "number" (a decimal numeral, of value val), "malformed" (digits and
\* points that form no numeral), "word" (no numeral at all) or "absent"
Conf(text, kind, val) == [text |-> text, kind |-> kind, val |-> val]

NoConf == Conf(Absent, "absent", Dec(0, 1))

\* one segment of a response: the value written after each label, or Absent;
\* upper: the labels are written in capitals
Segment(upper, t, sug, sav, conf, reas) ==
  [upper |-> upper, type |-> t, suggestion |-> sug, savings |-> sav,
   confidence |-> conf, reasoning |-> reas]

C08 == Conf(<<"0",".","8">>, "number", Dec(8, 10))

GoodA       == Segment(TRUE, <<"A">>, <<"b">>, <<"3","0","%"," ","c","o","s","t"," ","r","e","d","u","c","t","i","o","n">>, C08, <<"r">>)
GoodB       == Segment(TRUE, <<"C","o","s","t"," ","R","e","d","u","c","t","i","o","n">>, <<"c"," ","d">>, <<"4","0","%"," ","f","a","s","t","e","r">>,
                       Conf(<<"0",".","9">>, "number", Dec(9, 10)), <<"s">>)
GoodLower   == Segment(FALSE, <<"e">>, <<"f">>, <<"g">>, Conf(<<"1",".">>, "number", Dec(1, 1)), <<"t">>)
NoType      == Segment(TRUE, Absent, <<"b">>, <<"x">>, C08, <<"r">>)
NoSuggestion == Segment(TRUE, <<"A">>, Absent, <<"x">>, C08, <<"r">>)
NoTypeBadConf == Segment(TRUE, Absent, <<"b">>, <<"x">>, Conf(<<"0",".","8",".","1">>, "malformed", Dec(0, 1)), <<"r">>)
ConfHigh    == Segment(TRUE, <<"A">>, <<"h">>, <<"x">>, Conf(<<"h","i","g","h">>, "word", Dec(0, 1)), <<"r">>)
ConfTwoDots == Segment(TRUE, <<"A">>, <<"i">>, <<"x">>, Conf(<<"0",".","8",".","1">>, "malformed", Dec(0, 1)), <<"r">>)
ConfDot     == Segment(TRUE, <<"A">>, <<"j">>, <<"x">>, Conf(<<".">>, "malformed", Dec(0, 1)), <<"r">>)
ConfAbsent  == Segment(TRUE, <<"A">>, <<"k">>, <<"x">>, NoConf, <<"r">>)
Conf95      == Segment(TRUE, <<"A">>, <<"l">>, <<"x">>, Conf(<<"9","5">>, "number", Dec(95, 1)), <<"r">>)
NoSavings   == Segment(TRUE, <<"A">>, <<"m">>, Absent, Conf(<<"0",".","7","5">>, "number", Dec(75, 100)), Absent)
Blank       == Segment(TRUE, Absent, Absent, Absent, NoConf, Absent)

SegmentShapes == { GoodA, GoodB, GoodLower, NoType, NoSuggestion, NoTypeBadConf,
                   ConfHigh, ConfTwoDots, ConfDot, ConfAbsent, Conf95, NoSavings,
                   Blank }

\* the shapes used where a whole analysis follows the parse
PipelineShapes == { GoodA, GoodB, NoType, ConfHigh, ConfTwoDots, ConfAbsent, Conf95 }

\* the remote model's text for one segment, in the template of the prompt:
\* one "LABEL: value" line per field that is present
FieldLine(upper, label, value) ==
  IF value = Absent THEN << >>
  ELSE << (IF upper THEN label ELSE Lower(label)) \o <<" ">> \o value >>

RenderSegment(s) ==
  Join(<<"\n">>, FieldLine(s.upper, <<"T","Y","P","E",":">>, s.type)
              \o FieldLine(s.upper, <<"S","U","G","G","E","S","T","I","O","N",":">>, s.suggestion)
              \o FieldLine(s.upper, <<"S","A","V","I","N","G","S",":">>, s.savings)
              \o FieldLine(s.upper, <<"C","O","N","F","I","D","E","N","C","E",":">>, s.confidence.text)
              \o FieldLine(s.upper, <<"R","E","A","S","O","N","I","N","G",":">>, s.reasoning))

\* the response text: every segment is followed by a line "---"
RenderResponse(segs) ==
  Flatten([i \in 1..Len(segs) |-> RenderSegment(segs[i]) \o <<"\n","-","-","-","\n">>])

ShortResponses == SeqsUpTo(SegmentShapes, MaxShort)

LongResponses ==
  { g \o tail : g \in SeqsUpTo({GoodA, GoodB}, MaxSegs),
                tail \in { << >>, << ConfTwoDots >>, << NoType >> } }

\* the response texts handed to the parser
Responses == ShortResponses \cup LongResponses

\* GoodA, GoodB, GoodA, ... (n segments)
Alternating(n) == [i \in 1..n |-> IF i % 2 = 1 THEN GoodA ELSE GoodB]

\* the response texts of the runs in which a whole analysis follows
PipelineResponses ==
  SeqsUpTo(PipelineShapes, MaxShort)
  \cup { Alternating(n) : n \in 3..MaxSegs }
  \cup { << GoodB >> \o Alternating(n) : n \in 3..MaxSegs }

\* what the HTTP exchange of optimize_protocol produced
Remote(kind, status_code, body, segs) ==
  [kind |-> kind, status_code |-> status_code, body |-> body, segs |-> segs]

FailedRemotes ==
  { Remote("connection_error", 0, "none", << >>),
    Remote("timeout", 0, "none", << >>),
    Remote("response", 500, "text", << GoodA >>),
    Remote("response", 404, "not_json", << >>),
    Remote("response", 200, "not_json", << >>),
    Remote("response", 200, "no_candidates", << >>) }

FewRemotes == FailedRemotes \cup
  { Remote("response", 200, "text", segs) :
      segs \in { << GoodA >>, << GoodB, GoodA >>, << GoodA, ConfTwoDots >> } }

PipelineRemotes == FailedRemotes \cup
  { Remote("response", 200, "text", segs) : segs \in PipelineResponses }

ApiKeys == { None, <<>>, <<"k">> }

\* decimal digits of a natural number
RECURSIVE NumStr(_)
NumStr(n) ==
  LET d == CHOOSE c \in Digits : DigitVal[c] = n % 10 IN
  IF n < 10 THEN << d >> ELSE NumStr(n \div 10) \o << d >>

\* one line of savings wording: family "cost" or "time", the pattern of the
\* family it is written for (0: wording that names no percentage), and N
PhraseLine(fam, pat, n) == [fam |-> fam, pat |-> pat, n |-> n]

PhraseNs == {5, 30, 125}

PhraseLines ==
  { PhraseLine(f, p, n) : f \in {"cost", "time"}, p \in 1..4, n \in PhraseNs }
  \cup { PhraseLine("cost", 0, 0) }

RenderLine(l) ==
  LET w == IF l.fam = "cost" THEN <<"c","o","s","t">> ELSE <<"t","i","m","e">> IN
  CASE l.pat = 0 -> <<"h","a","l","v","e","s"," ","t","h","e"," ","c","o","s","t">>
    [] l.pat = 1 -> NumStr(l.n) \o <<"%"," ">> \o w \o <<" ","R","e","d","u","c","t","i","o","n">>
    [] l.pat = 2 -> NumStr(l.n) \o (IF l.fam = "cost" THEN <<"%"," ","c","h","e","a","p","e","r">> ELSE <<"%"," ","F","a","s","t","e","r">>)
    [] l.pat = 3 -> <<"S","a","v","e"," ">> \o NumStr(l.n) \o <<"%"," ","o","n"," ">> \o w
    [] l.pat = 4 -> <<"r","e","d","u","c","e"," ">> \o w \o <<" ","b","y"," ">> \o NumStr(l.n) \o <<"%">>

\* a text of one or two lines of savings wording
Phrases == UNION { [1..k -> PhraseLines] : k \in 1..2 }

RenderPhrase(ph) == Join(<<"\n">>, [i \in 1..Len(ph) |-> RenderLine(ph[i])])

----------------------------------------------------------------------------
(* main and interactive_mode *)

\* Python `a or b` for an optional string
Or(a, b) == IF Truthy(a) THEN a ELSE b

\* Python None where a list of strings is expected
NoList == << None >>

\* Python `a or b` for an optional list of strings
OrList(a, b) == IF a # NoList /\ Len(a) > 0 THEN a ELSE b

\* the fields of argparse's namespace that main reads before the analysis;
\* None: the flag is not on the command line
Args(interactive, title, description, materials, key) ==
  [interactive |-> interactive, title |-> title, description |-> description,
   materials |-> materials, api_key |-> key]

\* the lines typed at the prompts of interactive_mode (the constraints line
\* is read and has no effect on the analysis); materials: the lines typed at
\* the "  - " prompt, the last of them blank
Stdin(title, description, materials, key) ==
  [title |-> title, description |-> description, materials |-> materials,
   api_key |-> key]

\* the `while True` loop of interactive_mode from typed line i on
RECURSIVE ReadMaterials(_, _)
ReadMaterials(lines, i) ==
  IF i > Len(lines) \/ Len(Strip(lines[i])) = 0 THEN << >>
  ELSE << Strip(lines[i]) >> \o ReadMaterials(lines, i + 1)

\* interactive_mode(): the Protocol and the api_key it returns
interactive_mode(typed) ==
  [protocol |-> Protocol(Strip(typed.title), Strip(typed.description),
                         ReadMaterials(typed.materials, 1)),
   api_key  |-> Strip(typed.api_key)]

\* the if/else of main that chooses protocol and api_key
MainInputs(ns, env, typed) ==
  IF ns.interactive \/ ~Truthy(ns.title) THEN interactive_mode(typed)
  ELSE [protocol |-> Protocol(ns.title, Or(ns.description, <<>>),
                              OrList(ns.materials, << >>)),
        api_key  |-> Or(ns.api_key, env)]

\* GeminiOptimizer.__init__; built: the object exists
GeminiOptimizer(key) == [built |-> TRUE, api_key |-> key]

\* self.gemini = None: no remote client
NoGemini == [built |-> FALSE, api_key |-> None]

\* self.gemini of ProtocolOptimizer.__init__
ProtocolOptimizerGemini(gemini_api_key) ==
  IF Truthy(gemini_api_key) THEN GeminiOptimizer(gemini_api_key) ELSE NoGemini

NoArgs  == Args(FALSE, None, None, NoList, None)
NoStdin == Stdin(<<>>, <<>>, << <<>> >>, <<>>)

ArgsSet ==
  { Args(i, t, d, m, k) :
      i \in BOOLEAN,
      t \in { None, <<>>, <<"P","C","R">> },
      d \in { None, <<"r","e","a","d","e","r">> },
      m \in { NoList, << >>, << <<"b","l","o","t">> >> },
      k \in { None, <<>>, <<"f","l","a","g","k","e","y">> } }

Environs == { None, <<>>, <<"e","n","v","k","e","y">> }

Stdins ==
  { Stdin(t, <<>>, m, k) :
      t \in { <<"q","P","C","R">>, <<" ","t","e","a"," ">> },
      m \in { << <<>> >>, << <<" ","M","e","d","i","a">>, <<" ">>, <<"x">> >> },
      k \in { <<>>, <<" ">>, <<"t","y","p","e","d"," ">> } }

MainRemotes == { Remote("connection_error", 0, "none", << >>),
                 Remote("response", 200, "text", << GoodA >>) }

----------------------------------------------------------------------------
(* State *)

VARIABLES
  protocol,   \* the Protocol handed to analyze_protocol / whose text is matched
  api_key,    \* the credential ProtocolOptimizer is built with
  remote,     \* the outcome of the HTTP exchange, when one takes place
  phrase,     \* the text handed to the reduction extractors
  pc,         \* "start", or the name of the call that has returned
  raised,     \* the call ended with an exception
  found,      \* return value of get_optimizations
  returned,   \* return value of optimize_protocol
  parsed,     \* return value of _parse_gemini_response
  fraction,   \* return value of _extract_cost_reduction / _extract_time_reduction
  result,     \* return value of analyze_protocol, with its locals
  args,       \* the command line of main, as argparse parsed it
  environ,    \* the value of GEMINI_API_KEY in the environment, or None
  stdin,      \* what the user types at the prompts of interactive_mode
  gemini      \* self.gemini of the ProtocolOptimizer main builds

\* the inputs of main and the remote client it builds
launch == << args, environ, stdin, gemini >>

vars == << protocol, api_key, remote, phrase, pc, raised, found, returned,
           parsed, fraction, result, launch >>

NoProtocol == Protocol(<<>>, <<>>, << >>)
NoRemote   == Remote("connection_error", 0, "none", << >>)
NoPhrase   == << PhraseLine("cost", 0, 0) >>

\* main has not been run
NoLaunch ==
  /\ args = NoArgs
  /\ environ = None
  /\ stdin = NoStdin
  /\ gemini = NoGemini

NoResults ==
  /\ pc = "start"
  /\ raised = FALSE
  /\ found = << >>
  /\ returned = << >>
  /\ parsed = << >>
  /\ fraction = 0
  /\ result = << >>

\* a run of the pipeline: a protocol, a credential, and what the remote
\* exchange will produce if it takes place
Init ==
  /\ \/ /\ protocol \in Protocols
        /\ api_key \in ApiKeys
        /\ remote \in FewRemotes
     \/ /\ protocol \in FewProtocols
        /\ api_key = <<"k">>
        /\ remote \in PipelineRemotes
  /\ phrase = NoPhrase
  /\ NoLaunch
  /\ NoResults

\* the Catalogue Matcher alone, on the text of a protocol
InitMatcher ==
  /\ protocol \in MatcherProtocols
  /\ api_key = None
  /\ remote = NoRemote
  /\ phrase = NoPhrase
  /\ NoLaunch
  /\ NoResults

\* the Response Parser alone, on a response text
InitParser ==
  /\ protocol = NoProtocol
  /\ api_key = <<"k">>
  /\ remote \in { Remote("response", 200, "text", segs) : segs \in Responses }
  /\ phrase = NoPhrase
  /\ NoLaunch
  /\ NoResults

\* the reduction extractors alone, on a text of savings wording
InitExtract ==
  /\ protocol = NoProtocol
  /\ api_key = None
  /\ remote = NoRemote
  /\ phrase \in Phrases
  /\ NoLaunch
  /\ NoResults

\* ProtocolDatabase.get_optimizations(text of the protocol)
GetOptimizations ==
  /\ pc = "start"
  /\ found' = get_optimizations(ProtocolText(protocol))
  /\ pc' = "get_optimizations"
  /\ UNCHANGED << protocol, api_key, remote, phrase, raised, returned, parsed,
                  fraction, result, launch >>

\* GeminiOptimizer._parse_gemini_response(text of a 200 response)
ParseGeminiResponse ==
  /\ pc = "start"
  /\ remote.kind = "response" /\ remote.body = "text"
  /\ \E r \in { parse_gemini_response(RenderResponse(remote.segs)) } :
       /\ raised' = r.raised
       /\ parsed' = r.val
  /\ pc' = "parse_gemini_response"
  /\ UNCHANGED << protocol, api_key, remote, phrase, found, returned, fraction,
                  result, launch >>

\* GeminiOptimizer(api_key).optimize_protocol(protocol)
OptimizeProtocol ==
  /\ pc = "start"
  /\ Truthy(api_key)
  /\ \E r \in { optimize_protocol(remote, RenderResponse(remote.segs)) } :
       /\ raised' = r.raised
       /\ returned' = r.val
  /\ pc' = "optimize_protocol"
  /\ UNCHANGED << protocol, api_key, remote, phrase, found, parsed, fraction,
                  result, launch >>

\* GeminiOptimizer._extract_cost_reduction(phrase)
ExtractCostReduction ==
  /\ pc = "start"
  /\ fraction' = extract_cost_reduction(RenderPhrase(phrase))
  /\ pc' = "extract_cost_reduction"
  /\ UNCHANGED << protocol, api_key, remote, phrase, raised, found, returned,
                  parsed, result, launch >>

\* GeminiOptimizer._extract_time_reduction(phrase)
ExtractTimeReduction ==
  /\ pc = "start"
  /\ fraction' = extract_time_reduction(RenderPhrase(phrase))
  /\ pc' = "extract_time_reduction"
  /\ UNCHANGED << protocol, api_key, remote, phrase, raised, found, returned,
                  parsed, result, launch >>

\* ProtocolOptimizer(api_key).analyze_protocol(protocol)
AnalyzeProtocol ==
  /\ pc = "start"
  /\ \E r \in { analyze_protocol(protocol, Truthy(api_key), remote,
                                   RenderResponse(remote.segs)) } :
       /\ raised' = r.raised
       /\ result' = r
  /\ pc' = "analyze_protocol"
  /\ UNCHANGED << protocol, api_key, remote, phrase, found, returned, parsed,
                  fraction, launch >>

\* main(): the protocol and the credential are chosen, the optimizer is
\* built and the protocol analysed (`except Exception` ends the run with
\* status 1: raised)
Main ==
  /\ pc = "start"
  /\ \E chosen \in { MainInputs(args, environ, stdin) } :
       /\ protocol' = chosen.protocol
       /\ api_key' = chosen.api_key
       /\ gemini' = ProtocolOptimizerGemini(chosen.api_key)
       /\ \E r \in { analyze_protocol(chosen.protocol, Truthy(chosen.api_key),
                                       remote, RenderResponse(remote.segs)) } :
            /\ raised' = r.raised
            /\ result' = r
  /\ pc' = "main"
  /\ UNCHANGED << args, environ, stdin, remote, phrase, found, returned,
                  parsed, fraction >>

Next ==
  \/ AnalyzeProtocol
  \/ OptimizeProtocol

Spec == Init /\ [][Next]_vars

SpecMatcher == InitMatcher /\ [][GetOptimizations]_vars

SpecParser == InitParser /\ [][ParseGeminiResponse]_vars

NextExtract ==
  \/ ExtractCostReduction
  \/ ExtractTimeReduction

SpecExtract == InitExtract /\ [][NextExtract]_vars

\* a run of main: a command line, an environment, typed input, and what the
\* remote exchange will produce if it takes place
InitMain ==
  /\ protocol = NoProtocol
  /\ api_key = None
  /\ remote \in MainRemotes
  /\ phrase = NoPhrase
  /\ NoResults
  /\ args \in ArgsSet
  /\ environ \in Environs
  /\ stdin \in Stdins
  /\ gemini = NoGemini

SpecMain == InitMain /\ [][Main]_vars

----------------------------------------------------------------------------
(* What the specification says of the catalogue matcher *)

\* keyword k (lower case) occurs in text in some letter casing
OccursAnyCase(k, text) ==
  \E i \in 1..(Len(text) - Len(k) + 1) :
    \A j \in 1..Len(k) : LowerChar(text[i + j - 1]) = k[j]

\* the categories (by catalogue position) with a keyword occurring in text
MatchedCategories(text) ==
  { c \in 1..Len(protocols) :
      \E k \in 1..Len(protocols[c].keywords) :
        OccursAnyCase(protocols[c].keywords[k], text) }

\* number of records of the categories of M in front of catalogue position c
RECURSIVE OffsetOf(_, _)
OffsetOf(c, M) ==
  IF c <= 1 THEN 0
  ELSE OffsetOf(c - 1, M)
       + (IF (c - 1) \in M THEN Len(protocols[c - 1].optimizations) ELSE 0)

TotalOf(M) == OffsetOf(Len(protocols) + 1, M)

\* list `found` holds, category after category in catalogue order, the whole
\* lists of the categories of M and nothing else
IsConcatenationOf(list, M) ==
  /\ Len(list) = TotalOf(M)
  /\ \A c \in M : \A i \in 1..Len(protocols[c].optimizations) :
       list[OffsetOf(c, M) + i] = protocols[c].optimizations[i]

Sources(list) == [i \in 1..Len(list) |-> list[i].source]

PcrScenario == Protocol(<<"P","C","R"," ","a","m","p","l","i","f","i","c","a","t","i","o","n"," ","u","s","i","n","g"," ","t","h","e","r","m","o","c","y","c","l","e","r">>, <<>>, << >>)

\* C1 as stated: whenever a keyword of a category occurs in the text in any
\* letter casing, get_optimizations returns exactly that category's list.
C1_ExactlyThatCategory ==
  pc = "get_optimizations" =>
    \A c \in MatchedCategories(ProtocolText(protocol)) :
      found = protocols[c].optimizations

\* C1 amended: whenever a keyword of a category occurs in the text in any
\* letter casing, the returned list holds that category's full template list
\* as one unbroken run, and is exactly that list when no other category has
\* a keyword in the text; "PCR amplification using thermocycler" returns the
\* three pcr records.
C1_ContainsThatCategory ==
  pc = "get_optimizations" =>
    LET M == MatchedCategories(ProtocolText(protocol)) IN
    /\ \A c \in M :
         LET L == protocols[c].optimizations IN
         /\ \E off \in 0..(Len(found) - Len(L)) : SubSeq(found, off + 1, off + Len(L)) = L
         /\ M = {c} => found = L
    /\ protocol = PcrScenario =>
         Sources(found) = << <<"p","r","o","t","o","c","o","l","s",".","i","o","/","p","c","r","-","o","p","t","i","m","i","z","a","t","i","o","n","-","2","0","2","3">>,
                             <<"g","i","t","h","u","b",".","c","o","m","/","l","a","b","-","p","r","o","t","o","c","o","l","s","/","p","c","r","-","m","i","n","i","a","t","u","r","i","z","a","t","i","o","n">>,
                             <<"b","i","o","-","p","r","o","t","o","c","o","l",".","o","r","g","/","t","o","u","c","h","d","o","w","n","-","p","c","r">> >>

\* the matcher has answered for a text whose only keyword is written in
\* capitals, with that one category's list
C1_Witness ==
  /\ pc = "get_optimizations"
  /\ protocol = Protocol(<<"S","Y","B","R">>, <<>>, << >>)
  /\ found = QpcrEntry.optimizations

\* C9: get_optimizations returns the concatenation, in catalogue order, of
\* the full lists of exactly the categories with a keyword occurring
\* case-insensitively in the text: each such category once, nothing
\* deduplicated, and the empty list when no keyword occurs.
C9_ConcatenationOfMatched ==
  pc = "get_optimizations" =>
    LET M == MatchedCategories(ProtocolText(protocol)) IN
    /\ IsConcatenationOf(found, M)
    /\ M = {} => found = << >>

\* the matcher has answered for a text in which two keywords of one category
\* and keywords of a second category occur
C9_Witness ==
  /\ pc = "get_optimizations"
  /\ protocol = Protocol(<<"P","C","R"," ","a","m","p","l","i","f","i","c","a","t","i","o","n"," ","u","s","i","n","g"," ","t","h","e","r","m","o","c","y","c","l","e","r">>, <<"C","e","l","l"," ","C","u","l","t","u","r","e">>, << >>)
  /\ Len(found) = 5

----------------------------------------------------------------------------
(* What the specification says of the response parser *)

HasRequired(s) == s.type # Absent /\ s.suggestion # Absent

\* a well-formed five-field block: every field present, CONFIDENCE a numeral
FiveField(s) ==
  /\ s.type # Absent /\ s.suggestion # Absent /\ s.savings # Absent
  /\ s.reasoning # Absent /\ s.confidence.kind = "number"

\* the labelled values of a block
Labelled(s) ==
  [type |-> s.type, suggestion |-> s.suggestion, savings |-> s.savings,
   confidence |-> s.confidence.val]

\* the four parsed fields of a record
Fields(rec) ==
  [type |-> rec.type, suggestion |-> rec.suggestion, savings |-> rec.savings,
   confidence |-> rec.confidence]

Prefix(s, n) == [i \in 1..(IF Len(s) < n THEN Len(s) ELSE n) |-> s[i]]

Map(Op(_), s) == [i \in 1..Len(s) |-> Op(s[i])]

\* the confidence the specification gives the record of a segment
SpecConfidence(s) == IF s.confidence.kind = "number" THEN s.confidence.val ELSE Dec(7, 10)

ConfidenceOfRecord(rec) == rec.confidence

\* C4 as stated: a segment with TYPE and SUGGESTION whose CONFIDENCE is absent
\* or is no number gets confidence 0.7; it still yields its record and the
\* other segments of the response still yield theirs.
C4_DefaultConfidence ==
  pc = "parse_gemini_response" =>
    LET segs == remote.segs IN
    (\E i \in 1..Len(segs) :
        HasRequired(segs[i]) /\ segs[i].confidence.kind # "number")
    => /\ ~raised
       /\ Map(ConfidenceOfRecord, parsed)
            = Prefix(Map(SpecConfidence, SelectSeq(segs, HasRequired)), 5)

C10_CapAtFive ==
  pc = "parse_gemini_response" =>
    LET good == SelectSeq(remote.segs, FiveField) IN
    /\ Len(parsed) <= 5
    /\ Len(good) > 5 =>
         /\ ~raised
         /\ Map(Fields, parsed) = Prefix(Map(Labelled, good), 5)

----------------------------------------------------------------------------
(* What the specification says of the reduction extractors *)

\* the lines of a phrase written for a pattern of family fam
LinesOf(ph, fam) == { i \in 1..Len(ph) : ph[i].fam = fam /\ ph[i].pat >= 1 }

\* N of the line whose pattern comes first in the family's list (the first
\* such line when two lines use that pattern), or 0 when there is none
ExpectedHundredths(ph, fam) ==
  LET L == LinesOf(ph, fam) IN
  IF L = {} THEN 0
  ELSE LET i == CHOOSE a \in L : \A b \in L :
                  \/ ph[a].pat < ph[b].pat
                  \/ ph[a].pat = ph[b].pat /\ a <= b
       IN ph[i].n

\* C8 as stated: text matching a pattern of the family with percentage N
\* gives N/100, for every N; the first pattern of the family that matches
\* decides; text matching none gives 0.0.  The same for the time family.
C8_ExtractsPercentage ==
  /\ pc = "extract_cost_reduction" => fraction = ExpectedHundredths(phrase, "cost")
  /\ pc = "extract_time_reduction" => fraction = ExpectedHundredths(phrase, "time")

----------------------------------------------------------------------------
(* What the specification says of the pipeline *)

\* the catalogue records the specification expects for a protocol, as
\* OptimizationRecords in catalogue order
CatalogueRecords(p) ==
  LET M == MatchedCategories(ProtocolText(p))
      CatOf(n) == CHOOSE c \in M :
                    OffsetOf(c, M) < n /\ n <= OffsetOf(c, M) + Len(protocols[c].optimizations)
  IN [n \in 1..TotalOf(M) |->
        LET o == protocols[CatOf(n)].optimizations[n - OffsetOf(CatOf(n), M)] IN
        [type |-> o.type, suggestion |-> o.suggestion, savings |-> o.savings,
         confidence |-> o.confidence, source |-> o.source,
         estimated_cost_reduction |-> o.cost_reduction,
         estimated_time_reduction |-> o.time_reduction]]

\* the remote outcomes of C2: no 200 response, a body that is not the
\* expected JSON, or a text on which the parse throws (a segment with TYPE,
\* SUGGESTION and a malformed number after CONFIDENCE)
RemoteFails(r) ==
  \/ r.kind # "response"
  \/ r.status_code # 200
  \/ r.body # "text"
  \/ \E i \in 1..Len(r.segs) :
       HasRequired(r.segs[i]) /\ r.segs[i].confidence.kind = "malformed"

SameElements(s, t) ==
  /\ Len(s) = Len(t)
  /\ \A x \in {s[i] : i \in 1..Len(s)} :
       Cardinality({i \in 1..Len(s) : s[i] = x}) = Cardinality({i \in 1..Len(t) : t[i] = x})

\* C2: optimize_protocol never raises, and returns the empty list for every
\* failed remote outcome; analyze_protocol then completes with exactly the
\* catalogue-sourced records.
C2_RemoteFailureIsNotFatal ==
  /\ pc = "optimize_protocol" =>
       /\ ~raised
       /\ RemoteFails(remote) => returned = << >>
  /\ (pc = "analyze_protocol" /\ Truthy(api_key) /\ RemoteFails(remote)) =>
       /\ ~raised
       /\ SameElements(result.optimizations, CatalogueRecords(protocol))

\* an analysis has completed with the three pcr records although the remote
\* exchange answered HTTP 500
C2_Witness ==
  /\ pc = "analyze_protocol"
  /\ Truthy(api_key)
  /\ remote.kind = "response" /\ remote.status_code = 500
  /\ protocol = PcrScenario
  /\ ~raised
  /\ Len(result.optimizations) = 3

\* C3 as stated: every record analyze_protocol returns has a confidence in
\* [0.0, 1.0], whatever the catalogue match and the remote response text.
C3_ConfidenceInUnitInterval ==
  pc = "analyze_protocol" =>
    \A i \in 1..Len(result.optimizations) :
      LET c == result.optimizations[i].confidence IN
      0 <= c.n /\ c.n <= c.d

\* the list analyze_protocol sorts, as the specification describes it:
\* catalogue records first, remote records second
Combined == CatalogueRecords(protocol) \o result.gemini_opts

\* place of combined[k] in a stable ordering by confidence, largest first
StablePlace(combined, k) ==
  1 + Cardinality({m \in 1..Len(combined) :
                     FloatLt(combined[k].confidence, combined[m].confidence)})
    + Cardinality({m \in 1..(k - 1) :
                     combined[m].confidence = combined[k].confidence})

\* C5: the returned list is the concatenation of the catalogue records and
\* the remote records sorted by confidence non-increasing, records of equal
\* confidence keeping their order in the concatenation.
C5_StableSortByConfidence ==
  pc = "analyze_protocol" =>
    LET out == result.optimizations IN
    /\ \A i \in 1..Len(result.gemini_opts) :
         result.gemini_opts[i].source = <<"G","e","m","i","n","i"," ","A","I"," ","A","n","a","l","y","s","i","s">>
    /\ Len(out) = Len(Combined)
    /\ \A k \in 1..Len(Combined) : out[StablePlace(Combined, k)] = Combined[k]
    /\ \A i \in 1..(Len(out) - 1) : FloatLeq(out[i + 1].confidence, out[i].confidence)

\* an analysis has returned a catalogue record directly in front of a remote
\* record of the same confidence, and two remote records of equal confidence
C5_Witness ==
  /\ pc = "analyze_protocol"
  /\ \E i \in 1..(Len(result.optimizations) - 1) :
       /\ result.optimizations[i].source # <<"G","e","m","i","n","i"," ","A","I"," ","A","n","a","l","y","s","i","s">>
       /\ result.optimizations[i + 1].source = <<"G","e","m","i","n","i"," ","A","I"," ","A","n","a","l","y","s","i","s">>
       /\ result.optimizations[i].confidence = result.optimizations[i + 1].confidence
  /\ \E i, j \in 1..Len(result.gemini_opts) :
       /\ i < j
       /\ result.gemini_opts[i].confidence = result.gemini_opts[j].confidence
       /\ result.gemini_opts[i] # result.gemini_opts[j]

RECURSIVE SumOfFractions(_, _, _)
SumOfFractions(list, cost, i) ==
  IF i > Len(list) THEN 0
  ELSE (IF cost THEN list[i].estimated_cost_reduction
                ELSE list[i].estimated_time_reduction)
       + SumOfFractions(list, cost, i + 1)

\* C6: total_cost_reduction is min(sum of the cost fractions, 0.8) and
\* total_time_reduction is min(sum of the time fractions, 0.9), hence at
\* most 0.8 and 0.9 (fractions in hundredths).
C6_CappedTotals ==
  pc = "analyze_protocol" =>
    LET cost == SumOfFractions(Combined, TRUE, 1)
        time == SumOfFractions(Combined, FALSE, 1)
    IN /\ result.total_cost_reduction = (IF cost <= 80 THEN cost ELSE 80)
       /\ result.total_time_reduction = (IF time <= 90 THEN time ELSE 90)
       /\ result.total_cost_reduction <= 80
       /\ result.total_time_reduction <= 90

\* an analysis has returned both totals at their ceilings for records whose
\* fractions sum to more, remote records included
C6_Witness ==
  /\ pc = "analyze_protocol"
  /\ Len(result.gemini_opts) > 0
  /\ SumOfFractions(result.optimizations, TRUE, 1) > 80
  /\ SumOfFractions(result.optimizations, FALSE, 1) > 90
  /\ result.total_cost_reduction = 80
  /\ result.total_time_reduction = 90

----------------------------------------------------------------------------
(* What the specification says of main *)

\* C11: in every run of main where no API-credential flag is given and the
\* API-credential environment variable is set, the remote client is built
\* with the environment variable's value, also when the run enters
\* interactive mode and the user leaves the key prompt empty.
C11_EnvironmentCredentialUsed ==
  (pc = "main" /\ args.api_key = None /\ environ # None /\ Len(environ) > 0)
    => gemini = GeminiOptimizer(environ)

====
